---- MODULE Spec2Model ----
(***************************************************************************)
(* The aigit dashboard: data source (load + structural validation), the    *)
(* store, the load handlers of dd-app and dd-topbar, and the selection     *)
(* logic of dd-user-table and dd-detail-drawer.                            *)
(***************************************************************************)
EXTENDS Integers, Sequences, FiniteSets, TLC

(***************************************************************************)
(* JavaScript values.  A value carries its runtime type in t:              *)
(*   "undefined", "null", "boolean", "number", "string", "array", "object" *)
(* An object's v is the sequence of its own <<key, value>> pairs in        *)
(* insertion order; an array's v is the sequence of its elements.          *)
(***************************************************************************)
JUndefined == [t |-> "undefined", v |-> ""]

JNull == [t |-> "null", v |-> ""]

JBool(b) == [t |-> "boolean", v |-> b]

JNum(n) == [t |-> "number", v |-> n]

JStr(s) == [t |-> "string", v |-> s]

JArr(xs) == [t |-> "array", v |-> xs]

JObj(kvs) == [t |-> "object", v |-> kvs]

\* typeof v
TypeOf(x) ==
  CASE x.t = "undefined" -> "undefined"
    [] x.t = "boolean" -> "boolean"
    [] x.t = "number" -> "number"
    [] x.t = "string" -> "string"
    [] OTHER -> "object"          \* null, arrays and objects

\* the own keys of an object
Keys(x) == IF x.t = "object" THEN {x.v[i][1] : i \in 1..Len(x.v)} ELSE {}

\* Names every array answers the `in` operator for: its length and the
\* methods it inherits (its indices aside, which no caller asks for).
ArrayNames == {"length", "entries", "keys", "values", "constructor"}

\* Names every plain object inherits.
ObjectNames == {"constructor", "toString", "hasOwnProperty"}

\* key in x, for an object or array x
In(key, x) ==
  CASE x.t = "object" -> key \in Keys(x) \cup ObjectNames
    [] x.t = "array" -> key \in ArrayNames \cup ObjectNames
    [] OTHER -> FALSE

\* x[key] of an object (undefined when absent)
Get(x, key) ==
  IF x.t = "object" /\ key \in Keys(x)
  THEN x.v[CHOOSE i \in 1..Len(x.v) : x.v[i][1] = key][2]
  ELSE JUndefined

\* Defining property `key` of object construction `kvs`: a repeated key
\* keeps its first position and takes the last value.
Put(kvs, key, val) ==
  IF \E i \in 1..Len(kvs) : kvs[i][1] = key
  THEN [i \in 1..Len(kvs) |-> IF kvs[i][1] = key THEN <<key, val>> ELSE kvs[i]]
  ELSE Append(kvs, <<key, val>>)

(***************************************************************************)
(* JSON text, as the sequence of its lexical tokens.                       *)
(***************************************************************************)
P(c) == [k |-> "punct", v |-> c]

TStr(s) == [k |-> "string", v |-> s]

TNum(n) == [k |-> "number", v |-> n]

TLit(w) == [k |-> "literal", v |-> w]

IsP(tok, c) == tok.k = "punct" /\ tok.v = c

RECURSIVE JSONstringify(_)
RECURSIVE StringifyElements(_)
RECURSIVE StringifyMembers(_, _)

\* JSON.stringify(x): the tokens of the text
JSONstringify(x) ==
  CASE x.t = "null" -> <<TLit("null")>>
    [] x.t = "boolean" -> <<TLit(IF x.v THEN "true" ELSE "false")>>
    [] x.t = "number" -> <<TNum(x.v)>>
    [] x.t = "string" -> <<TStr(x.v)>>
    [] x.t = "array" -> <<P("[")>> \o StringifyElements(x.v) \o <<P("]")>>
    [] x.t = "object" -> <<P("{")>> \o StringifyMembers(x.v, TRUE) \o <<P("}")>>
    [] OTHER -> <<>>              \* undefined has no text

\* array elements; an undefined element is written null
StringifyElements(xs) ==
  IF xs = <<>> THEN <<>>
  ELSE (IF Head(xs).t = "undefined" THEN <<TLit("null")>> ELSE JSONstringify(Head(xs)))
       \o (IF Len(xs) > 1 THEN <<P(",")>> ELSE <<>>)
       \o StringifyElements(Tail(xs))

\* object members; a member whose value is undefined is left out
StringifyMembers(kvs, first) ==
  IF kvs = <<>> THEN <<>>
  ELSE IF Head(kvs)[2].t = "undefined" THEN StringifyMembers(Tail(kvs), first)
  ELSE (IF first THEN <<>> ELSE <<P(",")>>)
       \o <<TStr(Head(kvs)[1]), P(":")>> \o JSONstringify(Head(kvs)[2])
       \o StringifyMembers(Tail(kvs), FALSE)

\* What a call returns or throws.
Return(x) == [ok |-> TRUE, value |-> x, name |-> "", message |-> ""]

Throw(name, message) == [ok |-> FALSE, value |-> JUndefined, name |-> name, message |-> message]

\* parser results: the value read and the tokens left
Read(x, rest) == [ok |-> TRUE, value |-> x, rest |-> rest, message |-> ""]

Bad(message) == [ok |-> FALSE, value |-> JUndefined, rest |-> <<>>, message |-> message]

UnexpectedEnd == "Unexpected end of JSON input"

UnexpectedToken == "Unexpected token in JSON"

RECURSIVE ParseValue(_)
RECURSIVE ParseElements(_, _)
RECURSIVE ParseMembers(_, _)

ParseValue(ts) ==
  IF ts = <<>> THEN Bad(UnexpectedEnd)
  ELSE LET h == Head(ts)
           r == Tail(ts)
       IN CASE h.k = "string" -> Read(JStr(h.v), r)
            [] h.k = "number" -> Read(JNum(h.v), r)
            [] h.k = "literal" ->
                 IF h.v = "null" THEN Read(JNull, r)
                 ELSE IF h.v = "true" THEN Read(JBool(TRUE), r)
                 ELSE IF h.v = "false" THEN Read(JBool(FALSE), r)
                 ELSE Bad(UnexpectedToken)
            [] IsP(h, "[") ->
                 IF r = <<>> THEN Bad(UnexpectedEnd)
                 ELSE IF IsP(Head(r), "]") THEN Read(JArr(<<>>), Tail(r))
                 ELSE ParseElements(r, <<>>)
            [] IsP(h, "{") ->
                 IF r = <<>> THEN Bad(UnexpectedEnd)
                 ELSE IF IsP(Head(r), "}") THEN Read(JObj(<<>>), Tail(r))
                 ELSE ParseMembers(r, <<>>)
            [] OTHER -> Bad(UnexpectedToken)

\* ts starts at an element; acc holds the elements read so far
ParseElements(ts, acc) ==
  LET e == ParseValue(ts)
  IN IF ~e.ok THEN e
     ELSE IF e.rest = <<>> THEN Bad(UnexpectedEnd)
     ELSE IF IsP(Head(e.rest), ",") THEN ParseElements(Tail(e.rest), Append(acc, e.value))
     ELSE IF IsP(Head(e.rest), "]") THEN Read(JArr(Append(acc, e.value)), Tail(e.rest))
     ELSE Bad(UnexpectedToken)

\* ts starts at a member's key; acc holds the members read so far
ParseMembers(ts, acc) ==
  IF ts = <<>> THEN Bad(UnexpectedEnd)
  ELSE IF Head(ts).k # "string" THEN Bad(UnexpectedToken)
  ELSE IF Len(ts) < 2 THEN Bad(UnexpectedEnd)
  ELSE IF ~IsP(ts[2], ":") THEN Bad(UnexpectedToken)
  ELSE LET e == ParseValue(Tail(Tail(ts)))
       IN IF ~e.ok THEN e
          ELSE IF e.rest = <<>> THEN Bad(UnexpectedEnd)
          ELSE IF IsP(Head(e.rest), ",")
               THEN ParseMembers(Tail(e.rest), Put(acc, Head(ts).v, e.value))
          ELSE IF IsP(Head(e.rest), "}")
               THEN Read(JObj(Put(acc, Head(ts).v, e.value)), Tail(e.rest))
          ELSE Bad(UnexpectedToken)

\* JSON.parse(text): the value, or a SyntaxError
JSONparse(text) ==
  LET e == ParseValue(text)
  IN IF ~e.ok THEN Throw("SyntaxError", e.message)
     ELSE IF e.rest # <<>> THEN Throw("SyntaxError", UnexpectedToken)
     ELSE Return(e.value)

(***************************************************************************)
(* core/datasource.ts                                                      *)
(***************************************************************************)
DashboardDataError(message) == Throw("DashboardDataError", message)

isObject(x) == TypeOf(x) = "object" /\ x.t # "null"

\* validateDashboardData with the two key checks in the other order
validateEntriesFirst(raw) ==
  IF ~isObject(raw) THEN DashboardDataError("data.json: expected object")
  ELSE IF ~In("entries", raw) THEN DashboardDataError("data.json: missing entries")
  ELSE IF ~In("schema_version", raw) THEN DashboardDataError("data.json: missing schema_version")
  ELSE IF Get(raw, "entries").t # "array"
       THEN DashboardDataError("data.json: entries must be an array")
  ELSE Return(raw)

\* validateDashboardData also asking for a string schema_version
validateStringVersion(raw) ==
  IF ~isObject(raw) THEN DashboardDataError("data.json: expected object")
  ELSE IF Get(raw, "schema_version").t # "string"
       THEN DashboardDataError("data.json: missing schema_version")
  ELSE IF ~In("entries", raw) THEN DashboardDataError("data.json: missing entries")
  ELSE IF Get(raw, "entries").t # "array"
       THEN DashboardDataError("data.json: entries must be an array")
  ELSE Return(raw)

\* validateDashboardData returning a copy with the two required fields only
validateStripping(raw) ==
  IF ~isObject(raw) THEN DashboardDataError("data.json: expected object")
  ELSE IF ~In("schema_version", raw) THEN DashboardDataError("data.json: missing schema_version")
  ELSE IF ~In("entries", raw) THEN DashboardDataError("data.json: missing entries")
  ELSE IF Get(raw, "entries").t # "array"
       THEN DashboardDataError("data.json: entries must be an array")
  ELSE Return(JObj(<< <<"schema_version", Get(raw, "schema_version")>>,
                      <<"entries", Get(raw, "entries")>> >>))

validateDashboardData(raw) ==
  IF ~isObject(raw) THEN DashboardDataError("data.json: expected object")
  ELSE IF ~In("schema_version", raw) THEN DashboardDataError("data.json: missing schema_version")
  ELSE IF ~In("entries", raw) THEN DashboardDataError("data.json: missing entries")
  ELSE IF Get(raw, "entries").t # "array"
       THEN DashboardDataError("data.json: entries must be an array")
  ELSE Return(raw)

\* fetch(url) settles with a response res = [reached, ok, status, statusText, body]:
\* reached = FALSE is a rejected fetch (no response at all).
loadFromUrl(url, res) ==
  IF ~res.reached THEN Throw("TypeError", "Failed to fetch")
  ELSE IF ~res.ok
       THEN DashboardDataError("failed to fetch " \o url \o ": " \o ToString(res.status)
                               \o " " \o res.statusText)
  ELSE LET raw == JSONparse(res.body)      \* res.json()
       IN IF ~raw.ok THEN raw ELSE validateDashboardData(raw.value)

\* file = [readable, text]: file.text() rejects for an unreadable file.
loadFromFile(file) ==
  IF ~file.readable THEN Throw("NotReadableError", "The file could not be read")
  ELSE LET raw == JSONparse(file.text)
       IN IF ~raw.ok THEN DashboardDataError("invalid JSON: " \o raw.message)
          ELSE validateDashboardData(raw.value)

(***************************************************************************)
(* Strings.  A string is the sequence of its UTF-16 code units; Chars      *)
(* spells out the strings the model uses, CodeUnit orders the characters.  *)
(***************************************************************************)
CodeUnit ==
  " " :> 32 @@ "+" :> 43 @@ "-" :> 45 @@ "." :> 46 @@ "0" :> 48 @@ "1" :> 49 @@
  "2" :> 50 @@ "3" :> 51 @@ "4" :> 52 @@ "5" :> 53 @@ "9" :> 57 @@ ":" :> 58 @@
  "@" :> 64 @@ "A" :> 65 @@ "B" :> 66 @@ "C" :> 67 @@ "O" :> 79 @@ "T" :> 84 @@ "Z" :> 90 @@
  "a" :> 97 @@ "b" :> 98 @@ "c" :> 99 @@ "e" :> 101 @@
  "i" :> 105 @@ "l" :> 108 @@ "m" :> 109 @@ "o" :> 111 @@ "r" :> 114 @@
  "x" :> 120 @@ "z" :> 122

Chars ==
  "" :> <<>> @@
  "alice@x.com" :> <<"a", "l", "i", "c", "e", "@", "x", ".", "c", "o", "m">> @@
  "bob@x.com" :> <<"b", "o", "b", "@", "x", ".", "c", "o", "m">> @@
  "carol@x.com" :> <<"c", "a", "r", "o", "l", "@", "x", ".", "c", "o", "m">> @@
  "Alice" :> <<"A", "l", "i", "c", "e">> @@
  "Bob" :> <<"B", "o", "b">> @@
  "Carol" :> <<"C", "a", "r", "o", "l">> @@
  "2023-12-31" :> <<"2", "0", "2", "3", "-", "1", "2", "-", "3", "1">> @@
  "2024-01-05" :> <<"2", "0", "2", "4", "-", "0", "1", "-", "0", "5">> @@
  "2024-02-01" :> <<"2", "0", "2", "4", "-", "0", "2", "-", "0", "1">> @@
  "2024-01-05T09:00:00Z" :>
    <<"2", "0", "2", "4", "-", "0", "1", "-", "0", "5", "T",
      "0", "9", ":", "0", "0", ":", "0", "0", "Z">> @@
  "2024-01-05T10:00:00+02:00" :>
    <<"2", "0", "2", "4", "-", "0", "1", "-", "0", "5", "T",
      "1", "0", ":", "0", "0", ":", "0", "0", "+", "0", "2", ":", "0", "0">> @@
  " " :> <<" ">> @@
  "ali" :> <<"a", "l", "i">> @@
  " BOB " :> <<" ", "B", "O", "B", " ">> @@
  "zz" :> <<"z", "z">>

RECURSIVE CharsLt(_, _)

\* lexicographic order of code unit sequences
CharsLt(a, b) ==
  IF b = <<>> THEN FALSE
  ELSE IF a = <<>> THEN TRUE
  ELSE IF CodeUnit[Head(a)] < CodeUnit[Head(b)] THEN TRUE
  ELSE IF CodeUnit[Head(a)] > CodeUnit[Head(b)] THEN FALSE
  ELSE CharsLt(Tail(a), Tail(b))

\* a < b on strings
StrLt(a, b) == CharsLt(Chars[a], Chars[b])

\* a comparison that never finds a greater than b
StrGtNever(a, b) == FALSE

\* a > b on strings
StrGt(a, b) == CharsLt(Chars[b], Chars[a])

UpperToLower == "A" :> "a" @@ "B" :> "b" @@ "C" :> "c" @@ "O" :> "o"

\* s.toLowerCase(), on code units
toLowerCase(cs) ==
  [i \in 1..Len(cs) |-> IF cs[i] \in DOMAIN UpperToLower THEN UpperToLower[cs[i]] ELSE cs[i]]

RECURSIVE trimStart(_)
RECURSIVE trimEnd(_)

trimStart(cs) == IF cs # <<>> /\ Head(cs) = " " THEN trimStart(Tail(cs)) ELSE cs

trimEnd(cs) ==
  IF cs # <<>> /\ cs[Len(cs)] = " " THEN trimEnd(SubSeq(cs, 1, Len(cs) - 1)) ELSE cs

\* s.trim(), on code units
trim(cs) == trimEnd(trimStart(cs))

\* hay.includes(needle), on code units
includes(hay, needle) ==
  \E i \in 1..(Len(hay) + 1) :
    /\ i + Len(needle) - 1 <= Len(hay)
    /\ SubSeq(hay, i, i + Len(needle) - 1) = needle

\* a.localeCompare(b) for the model's strings: letters compare without case
\* first, then lower case before upper case.
localeCompare(a, b) ==
  LET la == toLowerCase(Chars[a])
      lb == toLowerCase(Chars[b])
  IN IF CharsLt(la, lb) THEN -1
     ELSE IF CharsLt(lb, la) THEN 1
     ELSE IF a = b THEN 0
     ELSE IF CharsLt(Chars[b], Chars[a]) THEN -1 ELSE 1

\* Date.parse(iso) of the date strings the model uses, in epoch seconds (the
\* engine's milliseconds / 1000, to stay within 32-bit integers); a string
\* outside the table does not parse (NaN).
DateParse ==
  "2023-12-31" :> 1703980800 @@
  "2024-01-05" :> 1704412800 @@
  "2024-01-05T10:00:00+02:00" :> 1704441600 @@
  "2024-01-05T09:00:00Z" :> 1704445200 @@
  "2024-02-01" :> 1706745600

(***************************************************************************)
(* core/types.ts: the shape of an entry as the components read it.         *)
(***************************************************************************)
DashboardEntry(sha, name, email, date, decision, score) ==
  JObj(<< <<"commit", JObj(<< <<"sha", JStr(sha)>>,
                             <<"author_name", JStr(name)>>,
                             <<"author_email", JStr(email)>>,
                             <<"author_date_iso", JStr(date)>> >>)>>,
          <<"transcript", JObj(<< <<"decision", JStr(decision)>>,
                                 <<"score", JObj(<< <<"total_score", JNum(score)>> >>)>> >>)>> >>)

\* e.commit.sha and the like
commit_sha(e) == Get(Get(e, "commit"), "sha").v

author_name(e) == Get(Get(e, "commit"), "author_name").v

author_email(e) == Get(Get(e, "commit"), "author_email").v

author_date_iso(e) == Get(Get(e, "commit"), "author_date_iso").v

decision(e) == Get(Get(e, "transcript"), "decision").v

total_score(e) == Get(Get(Get(e, "transcript"), "score"), "total_score").v

(***************************************************************************)
(* core/selectors.ts                                                       *)
(***************************************************************************)
toMs(iso) == IF iso \in DOMAIN DateParse THEN DateParse[iso] ELSE 0

\* the comparators, aggregateUsers' comparing the times only
CompareTimesOnly(by, a, b) ==
  CASE by = "entriesForUser" ->
         IF StrLt(author_date_iso(a), author_date_iso(b)) THEN 1 ELSE -1
    [] by = "timeSeriesAvgScore" ->
         IF StrLt(author_date_iso(a), author_date_iso(b)) THEN -1 ELSE 1
    [] by = "aggregateUsers" -> toMs(b.lastSeenIso) - toMs(a.lastSeenIso)

\* The comparators handed to Array.prototype.sort, by the selector that
\* sorts: a negative result puts a first.
Compare(by, a, b) ==
  CASE by = "entriesForUser" ->
         IF StrLt(author_date_iso(a), author_date_iso(b)) THEN 1 ELSE -1
    [] by = "timeSeriesAvgScore" ->
         IF StrLt(author_date_iso(a), author_date_iso(b)) THEN -1 ELSE 1
    [] by = "aggregateUsers" ->
         LET at == toMs(a.lastSeenIso)
             bt == toMs(b.lastSeenIso)
         IN IF bt # at THEN bt - at ELSE localeCompare(a.email, b.email)

RECURSIVE InsertionPoint(_, _, _, _, _)

\* Binary search for pivot's place in the sorted prefix, on 0-based
\* positions left..right, as the engine's insertion sort does it.
InsertionPoint(by, sorted, pivot, left, right) ==
  IF left >= right THEN left
  ELSE LET mid == left + ((right - left) \div 2)
       IN IF Compare(by, pivot, sorted[mid + 1]) < 0
          THEN InsertionPoint(by, sorted, pivot, left, mid)
          ELSE InsertionPoint(by, sorted, pivot, mid + 1, right)

RECURSIVE InsertAll(_, _, _)

InsertAll(by, sorted, rest) ==
  IF rest = <<>> THEN sorted
  ELSE LET at == InsertionPoint(by, sorted, Head(rest), 0, Len(sorted))
       IN InsertAll(by,
                    SubSeq(sorted, 1, at) \o <<Head(rest)>> \o SubSeq(sorted, at + 1, Len(sorted)),
                    Tail(rest))

\* xs.sort(comparator): binary insertion sort, the engine's method for
\* arrays this short.
ArraySort(by, xs) == InsertAll(by, <<>>, xs)

RECURSIVE ArrayFilter(_, _)

\* xs.filter(keep), keep given as the set of elements kept
ArrayFilter(xs, keep) ==
  IF xs = <<>> THEN <<>>
  ELSE (IF Head(xs) \in keep THEN <<Head(xs)>> ELSE <<>>) \o ArrayFilter(Tail(xs), keep)

Elements(xs) == {xs[i] : i \in 1..Len(xs)}

\* entriesForUser leaving the user's entries in the order of the bundle
entriesForUserUnsorted(entries, email) ==
  ArrayFilter(entries, {e \in Elements(entries) : author_email(e) = email})

\* entriesForUser sorting oldest first
entriesForUserAscending(entries, email) ==
  ArraySort("timeSeriesAvgScore",
            ArrayFilter(entries, {e \in Elements(entries) : author_email(e) = email}))

entriesForUser(entries, email) ==
  ArraySort("entriesForUser",
            ArrayFilter(entries, {e \in Elements(entries) : author_email(e) = email}))

\* the mean of the last score and the mean so far
runningMeanOfTwo(avg, n, score) == <<avg[1] + score * avg[2], avg[2] * 2>>

\* (row.avgScore * (n - 1) + score) / n, on exact fractions
runningMean(avg, n, score) == <<avg[1] * (n - 1) + score * avg[2], avg[2] * n>>

\* the loop's step not counting the entry that makes a row
AggregateStepSeedingOnly(rows, e) ==
  LET email == author_email(e)
      existing == \E i \in 1..Len(rows) : rows[i].email = email
      seed == [name |-> author_name(e), email |-> email, passes |-> 0, fails |-> 0,
               avgScore |-> <<0, 1>>, lastSeenIso |-> author_date_iso(e)]
      row == rows[CHOOSE i \in 1..Len(rows) : rows[i].email = email]
      passes == IF decision(e) = "pass" THEN row.passes + 1 ELSE row.passes
      fails == IF decision(e) = "pass" THEN row.fails ELSE row.fails + 1
      updated == [row EXCEPT !.passes = passes,
                             !.fails = fails,
                             !.avgScore = <<row.avgScore[1] * (passes + fails - 1)
                                              + total_score(e) * row.avgScore[2],
                                            row.avgScore[2] * (passes + fails)>>,
                             !.lastSeenIso = IF CharsLt(Chars[row.lastSeenIso],
                                                        Chars[author_date_iso(e)])
                                             THEN author_date_iso(e)
                                             ELSE row.lastSeenIso]
  IN IF existing
     THEN [i \in 1..Len(rows) |-> IF rows[i].email = email THEN updated ELSE rows[i]]
     ELSE Append(rows, seed)

\* One step of aggregateUsers' loop: rows is byEmail in insertion order.
\* avgScore is the exact fraction <<numerator, denominator>>.
AggregateStep(rows, e) ==
  LET email == author_email(e)
      existing == \E i \in 1..Len(rows) : rows[i].email = email
      seed == [name |-> author_name(e), email |-> email, passes |-> 0, fails |-> 0,
               avgScore |-> <<0, 1>>, lastSeenIso |-> author_date_iso(e)]
      row == IF existing THEN rows[CHOOSE i \in 1..Len(rows) : rows[i].email = email]
             ELSE seed
      passes == IF decision(e) = "pass" THEN row.passes + 1 ELSE row.passes
      fails == IF decision(e) = "pass" THEN row.fails ELSE row.fails + 1
      n == passes + fails
      updated == [row EXCEPT !.passes = passes,
                             !.fails = fails,
                             !.avgScore = runningMean(row.avgScore, n, total_score(e)),
                             !.lastSeenIso = IF StrGt(author_date_iso(e), row.lastSeenIso)
                                             THEN author_date_iso(e)
                                             ELSE row.lastSeenIso]
  IN IF existing
     THEN [i \in 1..Len(rows) |-> IF rows[i].email = email THEN updated ELSE rows[i]]
     ELSE Append(rows, updated)

RECURSIVE AggregateLoop(_, _)

AggregateLoop(rows, entries) ==
  IF entries = <<>> THEN rows
  ELSE AggregateLoop(AggregateStep(rows, Head(entries)), Tail(entries))

\* aggregateUsers making a row of every entry
aggregateUsersUngrouped(entries) ==
  ArraySort("aggregateUsers",
            [i \in 1..Len(entries) |-> AggregateStep(<<>>, entries[i])[1]])

aggregateUsers(entries) == ArraySort("aggregateUsers", AggregateLoop(<<>>, entries))

\* filterUsers comparing the letters as they are written
filterUsersCaseSensitive(users, query) ==
  LET q == trim(Chars[query])
  IN IF q = <<>> THEN users
     ELSE ArrayFilter(users,
                      {u \in Elements(users) :
                         \/ includes(Chars[u.name], q)
                         \/ includes(Chars[u.email], q)})

filterUsers(users, query) ==
  LET q == toLowerCase(trim(Chars[query]))
  IN IF q = <<>> THEN users
     ELSE ArrayFilter(users,
                      {u \in Elements(users) :
                         \/ includes(toLowerCase(Chars[u.name]), q)
                         \/ includes(toLowerCase(Chars[u.email]), q)})

\* timeSeriesAvgScore: sorted copy, oldest date string first, then one
\* point per entry; x is in epoch seconds as toMs is.
timeSeriesAvgScore(entries) ==
  LET sorted == ArraySort("timeSeriesAvgScore", entries)
  IN [i \in 1..Len(sorted) |->
        [x |-> toMs(author_date_iso(sorted[i])), y |-> total_score(sorted[i])]]

RECURSIVE ScoreSum(_)

\* entries.reduce((acc, e) => acc + e.transcript.score.total_score, 0)
ScoreSum(entries) ==
  IF entries = <<>> THEN 0 ELSE total_score(Head(entries)) + ScoreSum(Tail(entries))

\* e.transcript.score.hallucination_flags?.length ?? 0
FlagsOf(e) ==
  LET flags == Get(Get(Get(e, "transcript"), "score"), "hallucination_flags")
  IN IF flags.t \in {"array", "string"} THEN Len(flags.v) ELSE 0

RECURSIVE FlagSum(_)

FlagSum(entries) == IF entries = <<>> THEN 0 ELSE FlagsOf(Head(entries)) + FlagSum(Tail(entries))

\* kpis counting as fail only the entries decided "fail"
kpisCountingFails(entries) ==
  LET total == Len(entries)
      pass == Len(ArrayFilter(entries, {e \in Elements(entries) : decision(e) = "pass"}))
  IN [total |-> total,
      users |-> Cardinality({author_email(e) : e \in Elements(entries)}),
      pass |-> pass,
      fail |-> Len(ArrayFilter(entries, {e \in Elements(entries) : decision(e) = "fail"})),
      passRate |-> IF total = 0 THEN <<0, 1>> ELSE <<pass, total>>,
      avgScore |-> IF total = 0 THEN <<0, 1>> ELSE <<ScoreSum(entries), total>>,
      flags |-> FlagSum(entries)]

\* kpis dividing by total whatever it is
kpisDividing(entries) ==
  LET total == Len(entries)
      pass == Len(ArrayFilter(entries, {e \in Elements(entries) : decision(e) = "pass"}))
  IN [total |-> total,
      users |-> Cardinality({author_email(e) : e \in Elements(entries)}),
      pass |-> pass,
      fail |-> total - pass,
      passRate |-> <<pass, total>>,
      avgScore |-> <<ScoreSum(entries), total>>,
      flags |-> FlagSum(entries)]

\* kpis: passRate and avgScore are exact fractions <<numerator, denominator>>
\* (a zero denominator stands for the NaN of 0 / 0)
kpis(entries) ==
  LET total == Len(entries)
      pass == Len(ArrayFilter(entries, {e \in Elements(entries) : decision(e) = "pass"}))
  IN [total |-> total,
      users |-> Cardinality({author_email(e) : e \in Elements(entries)}),
      pass |-> pass,
      fail |-> total - pass,
      passRate |-> IF total = 0 THEN <<0, 1>> ELSE <<pass, total>>,
      avgScore |-> IF total = 0 THEN <<0, 1>> ELSE <<ScoreSum(entries), total>>,
      flags |-> FlagSum(entries)]

(***************************************************************************)
(* core/store.ts: the AppState and its single writer path.  A nullable     *)
(* field holds a JavaScript value (JNull or a string value).               *)
(***************************************************************************)
InitialState ==
  [status |-> "idle", error |-> JNull, data |-> JNull, userFilter |-> "",
   selectedEmail |-> JNull, selectedCommit |-> JNull, showAnswers |-> FALSE]

\* shallow merge of patch into s
setState(s, patch) == [f \in DOMAIN s |-> IF f \in DOMAIN patch THEN patch[f] ELSE s[f]]

setData(s, data) == setState(s, [data |-> data, status |-> "ready", error |-> JNull])

setError(s, message) == setState(s, [status |-> "error", error |-> JStr(message)])

\* Boolean(x), !x
Truthy(x) ==
  CASE x.t \in {"undefined", "null"} -> FALSE
    [] x.t = "boolean" -> x.v
    [] x.t = "number" -> x.v # 0
    [] x.t = "string" -> x.v # ""
    [] OTHER -> TRUE

\* s.data?.entries ?? []
EntriesOf(s) == IF s.data.t \in {"null", "undefined"} THEN <<>> ELSE Get(s.data, "entries").v

(***************************************************************************)
(* components/detail-drawer.ts                                             *)
(***************************************************************************)
RowLimit == 30

\* userEntries.find((e) => e.commit.sha === sha)
FindBySha(userEntries, sha) ==
  IF \E i \in 1..Len(userEntries) : commit_sha(userEntries[i]) = sha.v
  THEN userEntries[CHOOSE i \in 1..Len(userEntries) :
                     /\ commit_sha(userEntries[i]) = sha.v
                     /\ \A j \in 1..(i - 1) : commit_sha(userEntries[j]) # sha.v]
  ELSE JUndefined

pickSelected(userEntries, sha) ==
  IF Len(userEntries) = 0 THEN JNull
  ELSE IF ~Truthy(sha) THEN userEntries[1]
  ELSE LET found == FindBySha(userEntries, sha)
       IN IF found.t \in {"undefined", "null"} THEN userEntries[1] ELSE found

\* the isSelected flag of row i of the transcript list
isSelected(s, userEntries, i) ==
  \/ s.selectedCommit = JStr(commit_sha(userEntries[i]))
  \/ (~Truthy(s.selectedCommit) /\ i = 1)

\* DdDetailDrawer.render: the drawer's DOM after rendering state s over the
\* DOM dom = [open, items, detail] left by the previous render.
DrawerRender(dom, s) ==
  IF ~Truthy(s.selectedEmail) THEN [dom EXCEPT !.open = FALSE]
  ELSE LET userEntries == entriesForUser(EntriesOf(s), s.selectedEmail.v)
           shown == IF Len(userEntries) < RowLimit THEN Len(userEntries) ELSE RowLimit
       IN [open |-> TRUE,
           items |-> [i \in 1..shown |->
                        [entry |-> userEntries[i], selected |-> isSelected(s, userEntries, i)]],
           detail |-> pickSelected(userEntries, s.selectedCommit)]

(***************************************************************************)
(* components/user-table.ts and DdApp.render                               *)
(***************************************************************************)
\* DdUserTable.render: one row per user of #users
TableRender(users, s) ==
  [users |-> users,
   rows |-> [i \in 1..Len(users) |->
               [email |-> users[i].email, selected |-> s.selectedEmail = JStr(users[i].email)]]]

\* DdApp.render: hands the table its users (the setter renders the table)
AppRender(s) == TableRender(filterUsers(aggregateUsers(EntriesOf(s)), s.userFilter), s)

\* String(x), as a template literal converts x
String(x) ==
  CASE x.t = "string" -> x.v
    [] x.t = "number" -> ToString(x.v)
    [] x.t = "boolean" -> IF x.v THEN "true" ELSE "false"
    [] x.t \in {"undefined", "null"} -> x.t
    [] x.t = "array" -> IF x.v = <<>> THEN "" ELSE "[array]"
    [] OTHER -> "[object Object]"

\* DdApp.render: the lines of the status box (the ellipsis of the first
\* written as three dots)
StatusLines(s) ==
  (IF s.status = "loading" THEN <<"Loading...">> ELSE <<>>)
    \o (IF Truthy(s.error) THEN <<s.error.v>> ELSE <<>>)
    \o (IF Truthy(s.data) THEN <<"Generated at: " \o String(Get(s.data, "generated_at"))>>
        ELSE <<>>)

\* (rate * 100).toFixed(1) followed by "%", of the fraction rate
toFixedPercent(rate) ==
  IF rate[2] = 0 THEN "NaN%"
  ELSE LET tenths == (2000 * rate[1] + rate[2]) \div (2 * rate[2])
       IN ToString(tenths \div 10) \o "." \o ToString(tenths % 10) \o "%"

\* DdApp.render: the attributes it sets on the four KPI cards (the hint's
\* parts in order, its bullet separator left out)
KpiCards(s) ==
  LET stats == kpis(EntriesOf(s))
  IN [total |-> ToString(stats.total),
      users |-> ToString(stats.users),
      passRate |-> toFixedPercent(stats.passRate),
      hint |-> <<ToString(stats.pass), " pass ", ToString(stats.fail), " fail">>,
      flags |-> ToString(stats.flags)]

\* a change signal that dd-app does not listen to
OnChangeTableAndDrawerOnly(dom, s) ==
  LET afterTable == [dom EXCEPT !.table = TableRender(dom.table.users, s)]
  IN [afterTable EXCEPT !.drawer = DrawerRender(afterTable.drawer, s)]

\* One change signal: the subscribers render in subscription order (table,
\* drawer, app).
OnChange(dom, s) ==
  LET afterTable == [dom EXCEPT !.table = TableRender(dom.table.users, s)]
      afterDrawer == [afterTable EXCEPT !.drawer = DrawerRender(afterTable.drawer, s)]
  IN [afterDrawer EXCEPT !.table = AppRender(s)]

RECURSIVE OnChanges(_, _)

\* the change signals of a handler, one per state written
OnChanges(dom, states) ==
  IF states = <<>> THEN dom ELSE OnChanges(OnChange(dom, Head(states)), Tail(states))

\* the store's subscribers, in the order they subscribed: the children of
\* dd-app connect, and subscribe, when it appends them; dd-app subscribes after
Subscribers == <<"dd-topbar", "dd-user-table", "dd-detail-drawer", "dd-app">>

\* the renders a subscriber's change listener makes: its own and, for the
\* app, those of the table and the chart whose setters its render calls
ListenerRenders(sub) ==
  IF sub = "dd-app" THEN <<"dd-app", "dd-user-table", "dd-line-chart">> ELSE <<sub>>

\* change signal k of a handler, raised for the state s it wrote: what is
\* delivered, in order
Signal(k, s) ==
  [i \in 1..Len(Subscribers) |->
     [signal |-> k, listener |-> Subscribers[i], renders |-> ListenerRenders(Subscribers[i]),
      state |-> s]]

RECURSIVE SignalsFrom(_, _)

SignalsFrom(k, states) ==
  IF states = <<>> THEN <<>>
  ELSE Signal(k, Head(states)) \o SignalsFrom(k + 1, Tail(states))

\* the deliveries of a handler's writes, one signal per write
Signals(states) == SignalsFrom(1, states)

(***************************************************************************)
(* The load handlers.  A handler's result is the states it writes, in      *)
(* order (one per setState call), and the errors that leave it uncaught.   *)
(***************************************************************************)
Wrote(states) == [states |-> states, escaped |-> <<>>]

Escaped(states, err) == [states |-> states, escaped |-> <<err>>]

DataUrl == "./data.json"

\* the instruction bootstrap shows (the command's backquotes left out)
ExportHint ==
  "No ./data.json found. Generate it with: aigit dashboard export --out dashboard/public/data.json then serve dashboard/public/."

\* DdApp.bootstrap up to its await
bootstrapStart(s) == Wrote(<<setState(s, [status |-> "loading", error |-> JNull])>>)

\* bootstrap writing only while the store still shows its own load
bootstrapSettleIfLoading(s, r) ==
  IF s.status # "loading" THEN Wrote(<<>>)
  ELSE IF r.ok THEN Wrote(<<setData(s, r.value)>>)
  ELSE LET s1 == setState(s, [status |-> "idle"])
       IN Wrote(<<s1, setState(s1, [error |-> JStr(ExportHint)])>>)

\* bootstrap reporting a failure the way a manual load does
bootstrapSettleAsError(s, r) ==
  IF r.ok THEN Wrote(<<setData(s, r.value)>>)
  ELSE Wrote(<<setError(s, r.message)>>)

\* bootstrap catching DashboardDataError only
bootstrapSettleCatchingOwn(s, r) ==
  IF r.ok THEN Wrote(<<setData(s, r.value)>>)
  ELSE IF r.name # "DashboardDataError" THEN Escaped(<<>>, r)
  ELSE LET s1 == setState(s, [status |-> "idle"])
       IN Wrote(<<s1, setState(s1, [error |-> JStr(ExportHint)])>>)

\* bootstrap reporting a failure in a single write
bootstrapSettleInOneWrite(s, r) ==
  IF r.ok THEN Wrote(<<setData(s, r.value)>>)
  ELSE Wrote(<<setState(s, [status |-> "idle", error |-> JStr(ExportHint)])>>)

\* DdApp.bootstrap from its await on: r is what loadFromUrl settled with
bootstrapSettle(s, r) ==
  IF r.ok THEN Wrote(<<setData(s, r.value)>>)
  ELSE LET s1 == setState(s, [status |-> "idle"])
       IN Wrote(<<s1, setState(s1, [error |-> JStr(ExportHint)])>>)

\* the change listener writing a fresh state instead of merging into s
fileChangeStartFromScratch(s) ==
  Wrote(<<setState(InitialState, [status |-> "loading", error |-> JNull])>>)

\* the file input's change listener up to its await
fileChangeStart(s) == Wrote(<<setState(s, [status |-> "loading", error |-> JNull])>>)

\* the change listener showing a failure under a heading of its own
fileChangeSettlePrefixed(s, r) ==
  IF r.ok THEN Wrote(<<setData(s, r.value)>>)
  ELSE Wrote(<<setError(s, "Load failed: " \o r.message)>>)

\* the change listener dropping a result unless the store still shows a load
fileChangeSettleIfLoading(s, r) ==
  IF s.status # "loading" THEN Wrote(<<>>)
  ELSE IF r.ok THEN Wrote(<<setData(s, r.value)>>)
  ELSE Wrote(<<setError(s, r.message)>>)

\* the change listener dropping the bundle shown when a load fails
fileChangeSettleClearingData(s, r) ==
  IF r.ok THEN Wrote(<<setData(s, r.value)>>)
  ELSE Wrote(<<setState(s, [data |-> JNull, status |-> "error", error |-> JStr(r.message)])>>)

\* the change listener recording a failure's message without a status
fileChangeSettleErrorOnly(s, r) ==
  IF r.ok THEN Wrote(<<setData(s, r.value)>>)
  ELSE Wrote(<<setState(s, [error |-> JStr(r.message)])>>)

\* the file input's change listener from its await on
fileChangeSettle(s, r) ==
  IF r.ok THEN Wrote(<<setData(s, r.value)>>)
  ELSE Wrote(<<setError(s, r.message)>>)

\* the row's click listener leaving the commit selection alone
userRowClickKeepingCommit(s, u) == Wrote(<<setState(s, [selectedEmail |-> JStr(u.email)])>>)

\* the click listener of the user table's row of user u
userRowClick(s, u) ==
  Wrote(<<setState(s, [selectedEmail |-> JStr(u.email), selectedCommit |-> JNull])>>)

\* the click listener of the transcript list's item of entry e
transcriptClick(s, e) == Wrote(<<setState(s, [selectedCommit |-> JStr(commit_sha(e))])>>)

\* the close button clearing the commit first and the user after it
closeClickInTwoWrites(s) ==
  LET s1 == setState(s, [selectedCommit |-> JNull])
  IN Wrote(<<s1, setState(s1, [selectedEmail |-> JNull])>>)

\* the click listener of the drawer's close button
closeClick(s) == Wrote(<<setState(s, [selectedEmail |-> JNull, selectedCommit |-> JNull])>>)

(***************************************************************************)
(* Inputs: the files a user can pick and the responses ./data.json can get *)
(***************************************************************************)
Alice1 == DashboardEntry("aaa", "Alice", "alice@x.com", "2024-01-05", "pass", 80)

Alice2 == DashboardEntry("bbb", "Alice", "alice@x.com", "2024-02-01", "fail", 40)

Bob1 == DashboardEntry("ccc", "Bob", "bob@x.com", "2024-01-05", "pass", 60)

Alice3 == DashboardEntry("ddd", "Alice", "alice@x.com", "2023-12-31", "pass", 60)

DashboardData(version, generated, repo, entries) ==
  JObj(<< <<"schema_version", JStr(version)>>, <<"generated_at", JStr(generated)>>,
          <<"repo_id", JStr(repo)>>, <<"entries", JArr(entries)>> >>)

BundleA == DashboardData("1", "2024-02-01", "repo", <<Alice1, Bob1, Alice2>>)

BundleB == DashboardData("1", "2024-02-01", "repo", <<Alice3>>)

Foo == JObj(<< <<"foo", JNum(1)>> >>)

TextFile(text) == [readable |-> TRUE, text |-> text]

Files ==
  { TextFile(JSONstringify(BundleA)),
    TextFile(JSONstringify(BundleB)),
    TextFile(JSONstringify(Foo)),
    TextFile(<<P("{"), TStr("entries")>>),
    [readable |-> FALSE, text |-> <<>>] }

Response(status, statusText, body) ==
  [reached |-> TRUE, ok |-> status \in 200..299, status |-> status,
   statusText |-> statusText, body |-> body]

Responses ==
  { Response(200, "OK", JSONstringify(BundleA)),
    Response(200, "OK", <<P("<")>>),
    Response(200, "OK", JSONstringify(JArr(<<>>))),
    Response(404, "Not Found", <<>>),
    [reached |-> FALSE, ok |-> FALSE, status |-> 0, statusText |-> "", body |-> <<>>] }

Filters == {"", " BOB "}

MaxLoads == 3

(***************************************************************************)
(* The session                                                             *)
(***************************************************************************)
VARIABLES
  state,      \* the store's AppState
  emitted,    \* the states signalled to the subscribers by the last handler
  dom,        \* what the user table and the drawer show
  mounted,    \* dd-app is connected
  loads,      \* the loads in flight
  started,    \* the number of loads started so far
  lastDone,   \* history: the load that settled last
  escaped,    \* errors that left a handler uncaught
  call,       \* a function called on its own: its name and arguments
  ret         \* what that call returned

vars == <<state, emitted, dom, mounted, loads, started, lastDone, escaped, call, ret>>

NoCall == [fn |-> "none"]

Pending == [done |-> FALSE, value |-> JUndefined]

Returned(x) == [done |-> TRUE, value |-> x]

\* lastDone before any load has settled
NoLoad ==
  [id |-> 0, kind |-> "none", result |-> Return(JUndefined), cause |-> "none",
   peerSettled |-> FALSE, overtaken |-> FALSE]

Constructed ==
  /\ state = InitialState
  /\ emitted = <<>>
  /\ dom = [table |-> [users |-> <<>>, rows |-> <<>>],
            drawer |-> [open |-> FALSE, items |-> <<>>, detail |-> JUndefined]]
  /\ mounted = FALSE
  /\ loads = {}
  /\ started = 0
  /\ lastDone = NoLoad
  /\ escaped = <<>>

Init ==
  /\ Constructed
  /\ call = NoCall
  /\ ret = Pending

\* what a handler's result h does to the store and to the components
Handle(h) ==
  /\ state' = IF h.states = <<>> THEN state ELSE h.states[Len(h.states)]
  /\ emitted' = h.states
  /\ dom' = OnChanges(dom, h.states)
  /\ escaped' = escaped \o h.escaped
  /\ UNCHANGED <<call, ret>>

\* A load starts; it joins the loads in flight.  History kept with a load:
\* peerSettled, a load in flight together with it has settled already;
\* overtaken, a load started after it has settled already.
StartLoad(kind) ==
  /\ started' = started + 1
  /\ loads' = loads \cup {[id |-> started + 1, kind |-> kind,
                            peerSettled |-> FALSE, overtaken |-> FALSE]}

\* load l settles with result r, for the given cause
SettleLoad(l, r, cause) ==
  /\ loads' = {[m EXCEPT !.peerSettled = TRUE, !.overtaken = @ \/ l.id > m.id] :
                 m \in loads \ {l}}
  /\ lastDone' = [id |-> l.id, kind |-> l.kind, result |-> r, cause |-> cause,
                  peerSettled |-> l.peerSettled, overtaken |-> l.overtaken]

\* why a load of this text fails, if it does
TextCause(text) ==
  LET raw == JSONparse(text)
  IN IF ~raw.ok THEN "bad JSON"
     ELSE IF ~validateDashboardData(raw.value).ok THEN "wrong shape" ELSE "none"

ResponseCause(res) ==
  IF ~res.reached THEN "unreachable"
  ELSE IF ~res.ok THEN "HTTP status" ELSE TextCause(res.body)

FileCause(file) == IF ~file.readable THEN "unreadable" ELSE TextCause(file.text)

\* what each input settles with, tabulated once
UrlOutcome == [res \in Responses |-> loadFromUrl(DataUrl, res)]

FileOutcome == [file \in Files |-> loadFromFile(file)]

UrlCause == [res \in Responses |-> ResponseCause(res)]

FileCauseOf == [file \in Files |-> FileCause(file)]

\* DdApp.connectedCallback: the components mount and render, the app
\* subscribes, starts the bootstrap load and renders.
connectedCallback ==
  /\ ~mounted
  /\ mounted' = TRUE
  /\ Handle(bootstrapStart(state))
  /\ StartLoad("bootstrap")
  /\ UNCHANGED lastDone

\* the response to ./data.json arrives (or the fetch fails)
BootstrapSettles ==
  \E l \in loads, res \in Responses :
    /\ l.kind = "bootstrap"
    /\ Handle(bootstrapSettle(state, UrlOutcome[res]))
    /\ SettleLoad(l, UrlOutcome[res], UrlCause[res])
    /\ UNCHANGED <<mounted, started>>

\* the user picks a file
FileChange ==
  /\ mounted
  /\ started < MaxLoads
  /\ Handle(fileChangeStart(state))
  /\ StartLoad("file")
  /\ UNCHANGED <<mounted, lastDone>>

\* the file dialog closes with no file chosen
FileChangeNoFile ==
  /\ mounted
  /\ UNCHANGED vars

\* the picked file has been read (or could not be)
FileSettles ==
  \E l \in loads, file \in Files :
    /\ l.kind = "file"
    /\ Handle(fileChangeSettle(state, FileOutcome[file]))
    /\ SettleLoad(l, FileOutcome[file], FileCauseOf[file])
    /\ UNCHANGED <<mounted, started>>

\* a UI handler that writes one patch
Dispatch(patch) ==
  /\ Handle(Wrote(<<setState(state, patch)>>))
  /\ UNCHANGED <<mounted, loads, started, lastDone>>

FilterInput == \E q \in Filters : mounted /\ Dispatch([userFilter |-> q])

ShowAnswersChange == mounted /\ Dispatch([showAnswers |-> ~state.showAnswers])

\* a UI handler with result h
Listen(h) ==
  /\ Handle(h)
  /\ UNCHANGED <<mounted, loads, started, lastDone>>

ClickUserRow ==
  \E i \in 1..Len(dom.table.rows) : Listen(userRowClick(state, dom.table.users[i]))

ClickTranscript ==
  \E i \in 1..Len(dom.drawer.items) :
    /\ dom.drawer.open
    /\ Listen(transcriptClick(state, dom.drawer.items[i].entry))

ClickClose ==
  /\ dom.drawer.open
  /\ Listen(closeClick(state))

Next ==
  \/ connectedCallback
  \/ BootstrapSettles
  \/ FileChange
  \/ FileChangeNoFile
  \/ FileSettles
  \/ FilterInput
  \/ ShowAnswersChange
  \/ ClickUserRow
  \/ ClickTranscript
  \/ ClickClose

Spec == Init /\ [][Next]_vars

(***************************************************************************)
(* validateDashboardData on its own, over a bounded set of raw values      *)
(***************************************************************************)
SchemaVersions == {JStr("1"), JNull, JNum(2)}

EntriesValues == {JArr(<<>>), JArr(<<JNum(1)>>), JArr(<<Alice1>>), JObj(<<>>), JNull, JStr("x")}

\* no member, or one member `key` with a value of `values`
Members(key, values) == {<<>>} \cup {<< <<key, val>> >> : val \in values}

RawValues ==
  {JObj(a \o b \o c) : a \in Members("schema_version", SchemaVersions),
                       b \in Members("entries", EntriesValues),
                       c \in Members("foo", {JNum(1)})}
    \cup {JUndefined, JNull, JBool(TRUE), JNum(1), JStr("1"), JArr(<<>>), JArr(<<JNum(1)>>)}

SessionIdle == UNCHANGED <<state, emitted, dom, mounted, loads, started, lastDone, escaped>>

InitValidate ==
  /\ Constructed
  /\ call \in {[fn |-> "validateDashboardData", raw |-> raw] : raw \in RawValues}
  /\ ret = Pending

CallValidate ==
  /\ call.fn = "validateDashboardData"
  /\ ~ret.done
  /\ ret' = Returned(validateDashboardData(call.raw))
  /\ UNCHANGED call
  /\ SessionIdle

SpecValidate == InitValidate /\ [][CallValidate]_vars

(***************************************************************************)
(* Serialize, then loadFromFile: over a bounded set of bundles             *)
(***************************************************************************)
MaxBundleEntries == 2

\* an entry with every nested collection of a transcript filled in
RichEntry ==
  JObj(<< <<"commit", JObj(<< <<"sha", JStr("eee")>>, <<"author_name", JStr("Bob")>>,
                             <<"author_email", JStr("bob@x.com")>>,
                             <<"author_date_iso", JStr("2024-02-01")>>,
                             <<"subject", JStr("")>> >>)>>,
          <<"transcript",
            JObj(<< <<"schema_version", JStr("1")>>,
                    <<"diff_fingerprint", JObj(<< <<"patch_id", JStr("p")>> >>)>>,
                    <<"exam", JObj(<< <<"questions",
                                       JArr(<< JObj(<< <<"id", JStr("q1")>>,
                                                       <<"choices", JArr(<<>>)>> >>),
                                               JObj(<< <<"id", JStr("q2")>> >>) >>)>> >>)>>,
                    <<"answers", JObj(<< <<"answers", JObj(<< <<"q1", JStr("")>> >>)>> >>)>>,
                    <<"score", JObj(<< <<"total_score", JNum(0)>>,
                                       <<"hallucination_flags", JArr(<<JStr("f")>>)>>,
                                       <<"per_question", JArr(<<>>)>> >>)>>,
                    <<"decision", JStr("fail")>> >>)>> >>)

BundleEntries == {Alice1, Bob1, RichEntry}

SeqsUpTo(S, n) == UNION {[1..len -> S] : len \in 0..n}

WellFormed ==
  {DashboardData(version, generated, repo, entries) :
     version \in {"1", "2"}, generated \in {"2024-02-01", ""}, repo \in {"repo", ""},
     entries \in SeqsUpTo(BundleEntries, MaxBundleEntries)}

InitRoundTrip ==
  /\ Constructed
  /\ call \in {[fn |-> "loadFromFile", d |-> d] : d \in WellFormed}
  /\ ret = Pending

\* d is serialized to a file's text and the file is loaded
CallLoadFromFile ==
  /\ call.fn = "loadFromFile"
  /\ ~ret.done
  /\ ret' = Returned(loadFromFile(TextFile(JSONstringify(call.d))))
  /\ UNCHANGED call
  /\ SessionIdle

SpecRoundTrip == InitRoundTrip /\ [][CallLoadFromFile]_vars

(***************************************************************************)
(* The drawer's effective selection, over bounded entry lists              *)
(***************************************************************************)
MaxEntries == 3

Shas == {"aaa", "bbb"}

Emails == {"alice@x.com", "bob@x.com"}

Dates == {"2024-01-05", "2024-02-01"}

EntryPool ==
  {DashboardEntry(sha, "Alice", email, date, "pass", 0) :
     sha \in Shas, email \in Emails, date \in Dates}

\* the stored selectedCommit: none, a sha of the pool, or a sha of no entry
StoredShas == {JNull} \cup {JStr(sha) : sha \in Shas \cup {"zzz"}}

InitSelection ==
  /\ Constructed
  /\ call \in {[fn |-> "pickSelected", entries |-> entries, email |-> email, sha |-> sha] :
                 entries \in SeqsUpTo(EntryPool, MaxEntries), email \in Emails,
                 sha \in StoredShas}
  /\ ret = Pending

\* the drawer's render, up to the entry whose details it shows
CallPickSelected ==
  /\ call.fn = "pickSelected"
  /\ ~ret.done
  /\ ret' = Returned(pickSelected(entriesForUser(call.entries, call.email), call.sha))
  /\ UNCHANGED call
  /\ SessionIdle

SpecSelection == InitSelection /\ [][CallPickSelected]_vars

(***************************************************************************)
(* kpis, aggregateUsers and the KPI cards, over bounded entry lists        *)
(***************************************************************************)
MaxAggregated == 3

Carol1 == DashboardEntry("fff", "Carol", "carol@x.com", "2024-01-05", "warn", 80)

\* an entry whose date does not parse
Undated == DashboardEntry("ggg", "Bob", "bob@x.com", "", "pass", 40)

\* scores are in hundredths: 80 stands for 0.8
ScoredEntries == {Alice1, Alice2, Alice3, Bob1, RichEntry, Carol1, Undated}

EntryLists == SeqsUpTo(ScoredEntries, MaxAggregated)

\* the states dd-app renders: before any data (idle, loading, bootstrap
\* failed) and with a bundle loaded
RenderStates ==
  {InitialState,
   setState(InitialState, [status |-> "loading"]),
   setState(InitialState, [error |-> JStr(ExportHint)])}
    \cup {setData(InitialState, DashboardData("1", "2024-02-01", "repo", entries)) :
            entries \in EntryLists}

InitAggregates ==
  /\ Constructed
  /\ call \in {[fn |-> fn, entries |-> entries, s |-> InitialState] :
                 fn \in {"kpis", "aggregateUsers"}, entries \in EntryLists}
               \cup {[fn |-> "render", entries |-> EntriesOf(s), s |-> s] : s \in RenderStates}
  /\ ret = Pending

CallKpis ==
  /\ call.fn = "kpis"
  /\ ~ret.done
  /\ ret' = Returned(kpis(call.entries))
  /\ UNCHANGED call
  /\ SessionIdle

CallAggregateUsers ==
  /\ call.fn = "aggregateUsers"
  /\ ~ret.done
  /\ ret' = Returned(aggregateUsers(call.entries))
  /\ UNCHANGED call
  /\ SessionIdle

\* DdApp.render, up to the KPI cards
CallRender ==
  /\ call.fn = "render"
  /\ ~ret.done
  /\ ret' = Returned(KpiCards(call.s))
  /\ UNCHANGED call
  /\ SessionIdle

SpecAggregates == InitAggregates /\ [][CallKpis \/ CallAggregateUsers \/ CallRender]_vars

(***************************************************************************)
(* filterUsers, entriesForUser and timeSeriesAvgScore, over bounded lists  *)
(***************************************************************************)
MaxListed == 3

\* a second commit of Alice on the day of Alice1
Alice5 == DashboardEntry("hhh", "Alice", "alice@x.com", "2024-01-05", "fail", 40)

\* two commits of one morning, dated as git writes author dates: each in
\* the author's own UTC offset.  Offset was made at 08:00 UTC, Zulu at 09:00.
Zulu == DashboardEntry("iii", "Carol", "carol@x.com", "2024-01-05T09:00:00Z", "pass", 60)

Offset == DashboardEntry("jjj", "Carol", "carol@x.com", "2024-01-05T10:00:00+02:00", "pass", 80)

DatedEntries == {Alice1, Alice2, Alice3, Alice5, Bob1, Undated, Zulu, Offset}

DatedLists == SeqsUpTo(DatedEntries, MaxListed)

\* a row of aggregateUsers, as filterUsers reads it
UserRow(name, email) ==
  [name |-> name, email |-> email, passes |-> 1, fails |-> 0, avgScore |-> <<80, 1>>,
   lastSeenIso |-> "2024-01-05"]

UserRows ==
  {UserRow("Alice", "alice@x.com"), UserRow("Bob", "bob@x.com"),
   UserRow("Bob", "alice@x.com"), UserRow("Alice", "carol@x.com")}

Queries == {"", " ", " BOB ", "ali", "zz"}

InitSelectors ==
  /\ Constructed
  /\ call \in {[fn |-> "filterUsers", entries |-> <<>>, users |-> users, arg |-> q] :
                 users \in SeqsUpTo(UserRows, MaxListed), q \in Queries}
               \cup {[fn |-> "entriesForUser", entries |-> entries, users |-> <<>>,
                      arg |-> email] : entries \in DatedLists, email \in Emails}
               \cup {[fn |-> "timeSeriesAvgScore", entries |-> entries, users |-> <<>>,
                      arg |-> ""] : entries \in DatedLists}
  /\ ret = Pending

CallFilterUsers ==
  /\ call.fn = "filterUsers"
  /\ ~ret.done
  /\ ret' = Returned(filterUsers(call.users, call.arg))
  /\ UNCHANGED call
  /\ SessionIdle

CallEntriesForUser ==
  /\ call.fn = "entriesForUser"
  /\ ~ret.done
  /\ ret' = Returned(entriesForUser(call.entries, call.arg))
  /\ UNCHANGED call
  /\ SessionIdle

CallTimeSeriesAvgScore ==
  /\ call.fn = "timeSeriesAvgScore"
  /\ ~ret.done
  /\ ret' = Returned(timeSeriesAvgScore(call.entries))
  /\ UNCHANGED call
  /\ SessionIdle

SpecSelectors ==
  InitSelectors /\ [][CallFilterUsers \/ CallEntriesForUser \/ CallTimeSeriesAvgScore]_vars

(***************************************************************************)
(* The selectors on arrays that can be written to.  A heap is a sequence   *)
(* of arrays and an array's reference is its position; a call returns the  *)
(* heap it leaves and the reference of its result.  sort writes to the     *)
(* array it is called on; slice, filter and the spread make a new one.     *)
(***************************************************************************)
Alloc(heap, xs) == [heap |-> Append(heap, xs), ref |-> Len(heap) + 1]

\* a slice that hands back the array itself
sliceAliasing(heap, r) == [heap |-> heap, ref |-> r]

\* xs.slice()
slice(heap, r) == Alloc(heap, heap[r])

\* xs.filter(keep)
filter(heap, r, keep) == Alloc(heap, ArrayFilter(heap[r], keep))

\* xs.sort(comparator): sorts xs itself and returns it
sort(heap, r, by) == [heap |-> [heap EXCEPT ![r] = ArraySort(by, heap[r])], ref |-> r]

entriesForUserOn(heap, entries, email) ==
  LET kept == filter(heap, entries, {e \in Elements(heap[entries]) : author_email(e) = email})
      copy == slice(kept.heap, kept.ref)
  IN sort(copy.heap, copy.ref, "entriesForUser")

timeSeriesAvgScoreOn(heap, entries) ==
  LET copy == slice(heap, entries)
      sorted == sort(copy.heap, copy.ref, "timeSeriesAvgScore")
      xs == sorted.heap[sorted.ref]
  IN Alloc(sorted.heap,
           [i \in 1..Len(xs) |->
              [x |-> toMs(author_date_iso(xs[i])), y |-> total_score(xs[i])]])

\* the loop reads entries and writes to rows of its own; the spread of the
\* map's values is the array sorted
aggregateUsersOn(heap, entries) ==
  LET rows == Alloc(heap, AggregateLoop(<<>>, heap[entries]))
  IN sort(rows.heap, rows.ref, "aggregateUsers")

\* kpis: the arrays it makes, the emails mapped from the entries and the
\* entries that passed; length and reduce read entries
kpisOn(heap, entries) ==
  LET emails == Alloc(heap, [i \in 1..Len(heap[entries]) |-> author_email(heap[entries][i])])
  IN filter(emails.heap, entries, {e \in Elements(heap[entries]) : decision(e) = "pass"})

filterUsersOn(heap, users, query) ==
  LET q == toLowerCase(trim(Chars[query]))
  IN IF q = <<>> THEN [heap |-> heap, ref |-> users]
     ELSE filter(heap, users,
                 {u \in Elements(heap[users]) :
                    \/ includes(toLowerCase(Chars[u.name]), q)
                    \/ includes(toLowerCase(Chars[u.email]), q)})

\* one change signal over entries: the drawer's render for the user
\* selected, then DdApp.render with the filter typed
renderOn(heap, entries, email, query) ==
  LET drawer == entriesForUserOn(heap, entries, email)
      stats == kpisOn(drawer.heap, entries)
      users == aggregateUsersOn(stats.heap, entries)
      shown == filterUsersOn(users.heap, users.ref, query)
  IN timeSeriesAvgScoreOn(shown.heap, entries)

\* selector fn called on the array at reference 1
RunOn(fn, heap, arg) ==
  CASE fn = "entriesForUser" -> entriesForUserOn(heap, 1, arg)
    [] fn = "timeSeriesAvgScore" -> timeSeriesAvgScoreOn(heap, 1)
    [] fn = "aggregateUsers" -> aggregateUsersOn(heap, 1)
    [] fn = "kpis" -> kpisOn(heap, 1)
    [] fn = "filterUsers" -> filterUsersOn(heap, 1, arg)
    [] fn = "render" -> renderOn(heap, 1, "alice@x.com", arg)

InitOnHeap ==
  /\ Constructed
  /\ call \in {[fn |-> fn, input |-> entries, arg |-> ""] :
                 fn \in {"timeSeriesAvgScore", "aggregateUsers", "kpis"},
                 entries \in DatedLists}
               \cup {[fn |-> "entriesForUser", input |-> entries, arg |-> email] :
                      entries \in DatedLists, email \in Emails}
               \cup {[fn |-> "render", input |-> entries, arg |-> q] :
                      entries \in DatedLists, q \in Filters}
               \cup {[fn |-> "filterUsers", input |-> users, arg |-> q] :
                      users \in SeqsUpTo(UserRows, MaxListed), q \in Queries}
  /\ ret = Pending

\* the call runs on a heap that holds its input and nothing else
CallOnHeap ==
  /\ ~ret.done
  /\ ret' = Returned(RunOn(call.fn, <<call.input>>, call.arg))
  /\ UNCHANGED call
  /\ SessionIdle

SpecOnHeap == InitOnHeap /\ [][CallOnHeap]_vars

(***************************************************************************)
(* The selection state machine: the three click listeners, from every      *)
(* selection a session can hold over a loaded bundle.  call records the     *)
(* listener that ran last and the state it ran in.                         *)
(***************************************************************************)
\* selectedEmail with selectedCommit: nothing selected; a user; a user and
\* a commit of theirs in the bundle shown or in the one shown before it
Selections ==
  {<<JNull, JNull>>}
    \cup {<<JStr("alice@x.com"), sha>> : sha \in {JNull, JStr("aaa"), JStr("ddd")}}
    \cup {<<JStr("bob@x.com"), sha>> : sha \in {JNull, JStr("ccc")}}

\* the states of a mounted session that has loaded a bundle
LoadedStates ==
  {[InitialState EXCEPT !.status = "ready", !.data = d, !.userFilter = q,
                        !.selectedEmail = sel[1], !.selectedCommit = sel[2],
                        !.showAnswers = shown] :
     d \in {BundleA, BundleB}, q \in Filters, sel \in Selections, shown \in BOOLEAN}

\* what the components show once they have rendered state s
Rendered(s) ==
  OnChange([table |-> [users |-> <<>>, rows |-> <<>>],
            drawer |-> [open |-> FALSE, items |-> <<>>, detail |-> JUndefined]], s)

InitSelecting ==
  /\ state \in LoadedStates
  /\ emitted = <<state>>
  /\ dom = Rendered(state)
  /\ mounted = TRUE
  /\ loads = {}
  /\ started = 0
  /\ lastDone = NoLoad
  /\ escaped = <<>>
  /\ call = NoCall
  /\ ret = Pending

\* listener fn runs with result h
Ran(fn, arg, h) ==
  /\ state' = h.states[Len(h.states)]
  /\ emitted' = h.states
  /\ dom' = OnChanges(dom, h.states)
  /\ escaped' = escaped \o h.escaped
  /\ call' = [fn |-> fn, arg |-> arg, before |-> state]
  /\ ret' = Returned(JUndefined)
  /\ UNCHANGED <<mounted, loads, started, lastDone>>

UserRowClicked ==
  \E i \in 1..Len(dom.table.rows) :
    Ran("userRowClick", dom.table.users[i].email, userRowClick(state, dom.table.users[i]))

TranscriptClicked ==
  \E i \in 1..Len(dom.drawer.items) :
    /\ dom.drawer.open
    /\ Ran("transcriptClick", commit_sha(dom.drawer.items[i].entry),
           transcriptClick(state, dom.drawer.items[i].entry))

CloseClicked ==
  /\ dom.drawer.open
  /\ Ran("closeClick", "", closeClick(state))

SpecSelecting ==
  InitSelecting /\ [][UserRowClicked \/ TranscriptClicked \/ CloseClicked]_vars

\* the same listeners in a session that has loaded a bundle and selected
\* nothing yet; the bundle stays as loaded
Shared == DashboardEntry("aaa", "Bob", "bob@x.com", "2024-02-01", "pass", 60)

\* a bundle in which one sha names a commit of Alice and a commit of Bob
BundleC == DashboardData("1", "2024-02-01", "repo", <<Alice1, Shared, Alice2>>)

InitClicking ==
  /\ state \in {[InitialState EXCEPT !.status = "ready", !.data = d, !.userFilter = q,
                                      !.showAnswers = shown] :
                  d \in {BundleA, BundleB, BundleC}, q \in Filters, shown \in BOOLEAN}
  /\ emitted = <<state>>
  /\ dom = Rendered(state)
  /\ mounted = TRUE
  /\ loads = {}
  /\ started = 0
  /\ lastDone = NoLoad
  /\ escaped = <<>>
  /\ call = NoCall
  /\ ret = Pending

SpecClicking == InitClicking /\ [][UserRowClicked \/ TranscriptClicked \/ CloseClicked]_vars

(***************************************************************************)
(* Claims                                                                  *)
(***************************************************************************)
ValidatedFoo == call.fn = "validateDashboardData" /\ call.raw = Foo /\ ret.done

\* C1 as stated: validateDashboardData({"foo": 1}) fails with a
\* DashboardDataError whose message cites the missing entries field.
C1_FooCitesMissingEntries ==
  ValidatedFoo =>
    /\ ~ret.value.ok
    /\ ret.value.name = "DashboardDataError"
    /\ ret.value.message = "data.json: missing entries"

\* C1 amended: validateDashboardData({"foo": 1}) fails with a
\* DashboardDataError whose message cites the missing schema_version field,
\* the first of the two missing keys it checks.
C1_FooCitesMissingSchemaVersion ==
  ValidatedFoo =>
    /\ ~ret.value.ok
    /\ ret.value.name = "DashboardDataError"
    /\ ret.value.message = "data.json: missing schema_version"

C1_Witness == ValidatedFoo /\ ~ret.value.ok

\* the entries of call.entries authored by call.email
Mine == {i \in 1..Len(call.entries) : author_email(call.entries[i]) = call.email}

\* C3: the effective selection pickSelected(entriesForUser(entries, email),
\* selectedCommit) is an entry authored by email; it has the stored sha when
\* that user has an entry with it, otherwise it is an entry of the user with
\* the greatest author_date_iso; it is none only when the user has no entry.
C3_EffectiveSelection ==
  (call.fn = "pickSelected" /\ ret.done) =>
    LET picked == ret.value
        hasSha == /\ call.sha # JNull
                  /\ \E i \in Mine : commit_sha(call.entries[i]) = call.sha.v
    IN /\ (picked = JNull) <=> (Mine = {})
       /\ Mine # {} =>
            /\ \E i \in Mine : picked = call.entries[i]
            /\ hasSha => commit_sha(picked) = call.sha.v
            /\ ~hasSha => \A i \in Mine :
                            ~StrLt(author_date_iso(picked), author_date_iso(call.entries[i]))

\* the spec's scenario: alice's "aaa" (older) and "bbb" (newer), nothing
\* stored: "bbb" is picked
C3_Witness ==
  /\ call.fn = "pickSelected"
  /\ ret.done
  /\ call.email = "alice@x.com"
  /\ call.sha = JNull
  /\ call.entries = <<DashboardEntry("aaa", "Alice", "alice@x.com", "2024-01-05", "pass", 0),
                      DashboardEntry("bbb", "Alice", "alice@x.com", "2024-02-01", "pass", 0)>>
  /\ commit_sha(ret.value) = "bbb"

\* C9: validateDashboardData succeeds exactly when the value is a keyed
\* record with a schema_version key and an entries key whose value is an
\* array, whatever the schema_version value and the elements of entries;
\* in every other case it fails with a DashboardDataError.
C9_ValidatesExactlyTheShape ==
  (call.fn = "validateDashboardData" /\ ret.done) =>
    LET raw == call.raw
        shaped == /\ raw.t = "object"
                  /\ \E i \in 1..Len(raw.v) : raw.v[i][1] = "schema_version"
                  /\ \E i \in 1..Len(raw.v) : raw.v[i][1] = "entries" /\ raw.v[i][2].t = "array"
    IN /\ ret.value.ok <=> shaped
       /\ ~ret.value.ok => ret.value.name = "DashboardDataError"

\* accepted with a null schema_version and an entry that is no object
C9_Witness ==
  /\ call.fn = "validateDashboardData"
  /\ ret.done
  /\ ret.value.ok
  /\ Get(call.raw, "schema_version") = JNull
  /\ Get(call.raw, "entries") = JArr(<<JNum(1)>>)

\* C10: a well-formed DashboardData serialized to JSON text and loaded by
\* loadFromFile comes back structurally equal to the original.
C10_RoundTrip ==
  (call.fn = "loadFromFile" /\ ret.done) => (ret.value.ok /\ ret.value.value = call.d)

C10_Witness ==
  /\ call.fn = "loadFromFile"
  /\ ret.done
  /\ ret.value.ok
  /\ Get(ret.value.value, "entries") = JArr(<<RichEntry, Alice1>>)

\* the rows of the open drawer's transcript list that are highlighted
Highlighted == {i \in 1..Len(dom.drawer.items) : dom.drawer.items[i].selected}

\* C2: whenever the drawer is open and the selected user has an entry, the
\* highlighted transcript row is the effective selection, the entry whose
\* details are rendered: for selectedCommit null, a sha of that user's, or
\* a stale sha.
C2_HighlightIsEffectiveSelection ==
  (dom.drawer.open /\ dom.drawer.items # <<>>) =>
    /\ Cardinality(Highlighted) = 1
    /\ \A i \in Highlighted : dom.drawer.items[i].entry = dom.drawer.detail

\* a load settled in this step
Settled == lastDone' # lastDone

\* C4: of two loads in flight at the same time, the one that settles last
\* performs the final write: when it has settled, status and error are the
\* values it writes (ready and null on success; on failure idle and the
\* export hint for bootstrap, error and the message for a file), whichever
\* load started first, and data is its bundle if it succeeded.
C4_LastSettledLoadWins ==
  [][(Settled /\ lastDone'.peerSettled) =>
       LET r == lastDone'.result
       IN /\ r.ok => (state'.status = "ready" /\ state'.error = JNull /\ state'.data = r.value)
          /\ (~r.ok /\ lastDone'.kind = "bootstrap") =>
               (state'.status = "idle" /\ state'.error = JStr(ExportHint))
          /\ (~r.ok /\ lastDone'.kind = "file") =>
               (state'.status = "error" /\ state'.error = JStr(r.message))]_vars

\* the bootstrap load, started first, settles after a file load has shown
\* another bundle, and its bundle is the one shown
C4_Witness ==
  /\ lastDone.kind = "bootstrap"
  /\ lastDone.peerSettled
  /\ lastDone.overtaken
  /\ lastDone.result.ok
  /\ emitted = <<state>>
  /\ state.status = "ready"
  /\ state.data = BundleA

\* C5: a failed bootstrap load never sets status to error: it writes
\* status = idle, then error = the export hint, whatever made it fail.
C5_FailedBootstrapGoesIdle ==
  [][(Settled /\ lastDone'.kind = "bootstrap" /\ ~lastDone'.result.ok) =>
       /\ lastDone'.cause \in {"unreachable", "HTTP status", "bad JSON", "wrong shape"}
       /\ Len(emitted') = 2
       /\ emitted'[1] = [state EXCEPT !.status = "idle"]
       /\ emitted'[2] = [state EXCEPT !.status = "idle", !.error = JStr(ExportHint)]
       /\ state' = emitted'[2]]_vars

\* a bootstrap whose body is not JSON, settling after a file load failed
C5_Witness ==
  /\ lastDone.kind = "bootstrap"
  /\ lastDone.cause = "bad JSON"
  /\ Len(emitted) = 2
  /\ emitted[1].status = "idle"
  /\ emitted[1].error # JNull
  /\ state.status = "idle"
  /\ state.error = JStr(ExportHint)

\* C6: a failed manual load sets status = error and error = the message of
\* the error loadFromFile failed with, unchanged; a successful one sets data
\* to the loaded bundle, status = ready and error = null.
C6_ManualLoadOutcome ==
  [][(Settled /\ lastDone'.kind = "file") =>
       LET r == lastDone'.result
       IN IF r.ok
          THEN state'.data = r.value /\ state'.status = "ready" /\ state'.error = JNull
          ELSE state'.status = "error" /\ state'.error = JStr(r.message)
                 /\ state'.data = state.data]_vars

C6_Witness ==
  /\ lastDone.kind = "file"
  /\ lastDone.cause = "bad JSON"
  /\ emitted = <<state>>
  /\ state.status = "error"
  /\ state.error = JStr("invalid JSON: Unexpected end of JSON input")

\* C7: every failure of loadFromUrl and of loadFromFile for a non-success
\* HTTP status, a text that is not JSON or a value of the wrong shape is a
\* DashboardDataError.
C7_FailuresAreDashboardDataErrors ==
  (~lastDone.result.ok /\ lastDone.cause \in {"HTTP status", "bad JSON", "wrong shape"}) =>
    lastDone.result.name = "DashboardDataError"

\* C8: no load error leaves the handler that started the load: a failed
\* bootstrap or manual load ends as a string in AppState.error, and no
\* error is ever uncaught.
C8_LoadErrorsAreCaught ==
  [][(Settled /\ ~lastDone'.result.ok) =>
       (escaped' = <<>> /\ state'.error.t = "string")]_vars

\* a bootstrap that failed with an error of another type than the data
\* source's own
C8_Witness ==
  /\ lastDone.kind = "bootstrap"
  /\ ~lastDone.result.ok
  /\ lastDone.result.name = "SyntaxError"
  /\ escaped = <<>>
  /\ state.error = JStr(ExportHint)

\* a load started in this step
Started == started' # started

\* C11: setState is a shallow merge: every write sets the fields its patch
\* names and keeps every other field; the writes of a load's start, of
\* setData and of setError leave userFilter, selectedEmail, selectedCommit
\* and showAnswers as they were (and a write of a UI handler leaves status,
\* error and data as they were).
C11_SetStateIsShallowMerge ==
  [][\A k \in 1..Len(emitted') :
       LET prev == IF k = 1 THEN state ELSE emitted'[k - 1]
           next == emitted'[k]
           kept(fields) == \A f \in fields : next[f] = prev[f]
       IN /\ (Started \/ Settled) =>
               kept({"userFilter", "selectedEmail", "selectedCommit", "showAnswers"})
          /\ Started => (next.status = "loading" /\ next.error = JNull /\ kept({"data"}))
          /\ (Settled /\ ~lastDone'.result.ok) => kept({"data"})
          /\ ~(Started \/ Settled) => kept({"status", "error", "data"})]_vars

\* a manual load has just started over a filter, a selection and shown
\* answers, all of them kept
C11_Witness ==
  /\ \E l \in loads : l.id = started /\ l.kind = "file"
  /\ emitted = <<state>>
  /\ state.status = "loading"
  /\ state.data = BundleA
  /\ state.userFilter = " BOB "
  /\ state.selectedEmail = JStr("bob@x.com")
  /\ state.selectedCommit = JStr("ccc")
  /\ state.showAnswers

\* what the subscribers were delivered by the last handler
Delivered == Signals(emitted)

SelectionOf(s) ==
  IF ~Truthy(s.selectedEmail) THEN "NoSelection"
  ELSE IF ~Truthy(s.selectedCommit) THEN "UserSelected" ELSE "CommitSelected"

\* C13: clicking a user row, from any selection state, sets selectedEmail
\* to the row's email and selectedCommit to null in one write, and changes
\* no other field of AppState.
C13_UserRowClick ==
  call.fn = "userRowClick" =>
    /\ emitted = <<state>>
    /\ state.selectedEmail = JStr(call.arg)
    /\ state.selectedCommit = JNull
    /\ SelectionOf(state) = "UserSelected"
    /\ \A f \in DOMAIN state \ {"selectedEmail", "selectedCommit"} : state[f] = call.before[f]

\* bob's row clicked while a commit of alice was selected
C13_Witness ==
  /\ call.fn = "userRowClick"
  /\ call.arg = "bob@x.com"
  /\ SelectionOf(call.before) = "CommitSelected"
  /\ call.before.selectedEmail = JStr("alice@x.com")
  /\ state.selectedEmail = JStr("bob@x.com")
  /\ state.selectedCommit = JNull
  /\ state.showAnswers

\* C14: clicking close, from UserSelected or CommitSelected, sets
\* selectedEmail and selectedCommit to null in one write raising one change
\* signal: every state delivered to a subscriber has both cleared, and no
\* other field changes.
C14_CloseClearsBothAtOnce ==
  call.fn = "closeClick" =>
    /\ SelectionOf(call.before) \in {"UserSelected", "CommitSelected"}
    /\ emitted = <<state>>
    /\ state.selectedEmail = JNull
    /\ state.selectedCommit = JNull
    /\ \A i \in 1..Len(Delivered) :
          Delivered[i].state.selectedEmail = JNull /\ Delivered[i].state.selectedCommit = JNull
    /\ ~dom.drawer.open
    /\ \A f \in DOMAIN state \ {"selectedEmail", "selectedCommit"} : state[f] = call.before[f]

\* the drawer closed over a selected commit
C14_Witness ==
  /\ call.fn = "closeClick"
  /\ SelectionOf(call.before) = "CommitSelected"
  /\ SelectionOf(state) = "NoSelection"
  /\ Len(Delivered) = Len(Subscribers)
  /\ ~dom.drawer.open

\* C15: the UI is always recoverable: in every state of the mounted
\* session, whatever its status and with or without a load in flight, a new
\* manual load can be started; and when a manual load has succeeded and was
\* the last load to complete, status = ready, error = null and data is the
\* bundle it loaded.  (The change listener has no guard but a chosen file:
\* run in any state, it goes on to write status = loading and to load.)
C15_AlwaysRecoverable ==
  /\ mounted =>
       \A h \in {fileChangeStart(state)} :
         /\ h.escaped = <<>>
         /\ Len(h.states) = 1
         /\ h.states[1].status = "loading"
         /\ h.states[1].error = JNull
  /\ (loads = {} /\ lastDone.kind = "file" /\ lastDone.result.ok) =>
       (state.status = "ready" /\ state.error = JNull /\ state.data = lastDone.result.value)

\* a manual load started while another load was in flight, which failed
\* meanwhile, has succeeded as the last load and its bundle is shown
C15_Witness ==
  /\ loads = {}
  /\ lastDone.kind = "file"
  /\ lastDone.result.ok
  /\ lastDone.peerSettled
  /\ lastDone.result.value = BundleB
  /\ state.status = "ready"
  /\ state.error = JNull
  /\ state.data = BundleB

\* the positions of call.entries decided "pass"
Passed == {i \in 1..Len(call.entries) : decision(call.entries[i]) = "pass"}

\* C16: for every entry list, kpis(entries).fail = total - pass, total the
\* number of entries and pass the number of entries whose decision is
\* exactly "pass".
C16_FailIsTotalMinusPass ==
  (call.fn = "kpis" /\ ret.done) =>
    /\ ret.value.total = Len(call.entries)
    /\ ret.value.pass = Cardinality(Passed)
    /\ ret.value.fail = Len(call.entries) - Cardinality(Passed)
    /\ ret.value.fail = ret.value.total - ret.value.pass

\* one pass, one fail and one entry decided neither: two fails
C16_Witness ==
  /\ call.fn = "kpis"
  /\ ret.done
  /\ call.entries = <<Alice1, Carol1, Alice2>>
  /\ ret.value.total = 3
  /\ ret.value.pass = 1
  /\ ret.value.fail = 2

\* C17: kpis of the empty list is total 0, users 0, pass 0, fail 0,
\* passRate 0, avgScore 0, flags 0, with no division by zero; and these are
\* the values dd-app renders on its KPI cards while data is null.
C17_EmptyKpisAreZero ==
  /\ (call.fn = "kpis" /\ ret.done /\ call.entries = <<>>) =>
       /\ ret.value.total = 0 /\ ret.value.users = 0
       /\ ret.value.pass = 0 /\ ret.value.fail = 0 /\ ret.value.flags = 0
       /\ ret.value.passRate[2] # 0 /\ ret.value.passRate[1] = 0
       /\ ret.value.avgScore[2] # 0 /\ ret.value.avgScore[1] = 0
  /\ (call.fn = "render" /\ ret.done /\ call.s.data = JNull) =>
       ret.value = [total |-> "0", users |-> "0", passRate |-> "0.0%",
                    hint |-> <<"0", " pass ", "0", " fail">>, flags |-> "0"]

\* dd-app rendered while the bootstrap load is in flight
C17_Witness ==
  /\ call.fn = "render"
  /\ ret.done
  /\ call.s.data = JNull
  /\ call.s.status = "loading"
  /\ ret.value.total = "0"
  /\ ret.value.passRate = "0.0%"

\* the emails of call.entries
EmailsIn == {author_email(call.entries[i]) : i \in 1..Len(call.entries)}

\* C18: aggregateUsers returns exactly one row per distinct author_email:
\* as many rows as distinct emails, no email in two rows, every email in a
\* row, and the count equals kpis(entries).users.
C18_OneRowPerEmail ==
  (call.fn = "aggregateUsers" /\ ret.done) =>
    LET rows == ret.value
    IN /\ Len(rows) = Cardinality(EmailsIn)
       /\ \A i, j \in 1..Len(rows) : rows[i].email = rows[j].email => i = j
       /\ {rows[i].email : i \in 1..Len(rows)} = EmailsIn
       /\ Len(rows) = kpis(call.entries).users

\* three entries of two users: two rows
C18_Witness ==
  /\ call.fn = "aggregateUsers"
  /\ ret.done
  /\ call.entries = <<Alice1, Bob1, Alice2>>
  /\ Len(ret.value) = 2

\* C19: the rows of aggregateUsers are sorted by lastSeenIso descending
\* (by its time, which for the dates used is also its order as a string),
\* and rows with the same last-seen time are in ascending order of email,
\* whatever the order of the entries in the input.
C19_SortedByLastSeenThenEmail ==
  (call.fn = "aggregateUsers" /\ ret.done) =>
    LET rows == ret.value
    IN \A i, j \in 1..Len(rows) :
         i < j =>
           /\ toMs(rows[i].lastSeenIso) >= toMs(rows[j].lastSeenIso)
           /\ ~StrLt(rows[i].lastSeenIso, rows[j].lastSeenIso)
           /\ toMs(rows[i].lastSeenIso) = toMs(rows[j].lastSeenIso) =>
                StrLt(rows[i].email, rows[j].email)

\* three users last seen at the same time, entered in descending order of
\* email, come out in ascending order
C19_Witness ==
  /\ call.fn = "aggregateUsers"
  /\ ret.done
  /\ call.entries = <<Carol1, Bob1, Alice1>>
  /\ Len(ret.value) = 3
  /\ ret.value[1].email = "alice@x.com"
  /\ ret.value[2].email = "bob@x.com"
  /\ ret.value[3].email = "carol@x.com"
  /\ ret.value[1].lastSeenIso = ret.value[3].lastSeenIso

\* the positions of call.entries authored by email
EntriesBy(email) == {i \in 1..Len(call.entries) : author_email(call.entries[i]) = email}

RECURSIVE ScoreSumAt(_)

\* the sum of total_score over the positions at
ScoreSumAt(at) ==
  IF at = {} THEN 0
  ELSE LET i == CHOOSE i \in at : TRUE
       IN total_score(call.entries[i]) + ScoreSumAt(at \ {i})

\* C20: for every user, avgScore after aggregateUsers is, in exact
\* arithmetic, the mean of total_score over all of that user's entries, the
\* first included; scores 0.8, 0.4, 0.6 in that order give 0.6 and the
\* first two alone give 0.6.
C20_RunningMeanIsMean ==
  (call.fn = "aggregateUsers" /\ ret.done) =>
    \A r \in 1..Len(ret.value) :
      LET row == ret.value[r]
          mine == EntriesBy(row.email)
      IN /\ row.avgScore[2] # 0
         /\ row.avgScore[1] * Cardinality(mine) = ScoreSumAt(mine) * row.avgScore[2]
         /\ row.passes + row.fails = Cardinality(mine)

\* 0.8, 0.4, 0.6 in that order: 0.6
C20_Witness ==
  /\ call.fn = "aggregateUsers"
  /\ ret.done
  /\ call.entries = <<Alice1, Alice2, Alice3>>
  /\ total_score(Alice1) = 80 /\ total_score(Alice2) = 40 /\ total_score(Alice3) = 60
  /\ Len(ret.value) = 1
  /\ ret.value[1].avgScore[1] = 60 * ret.value[1].avgScore[2]
  /\ aggregateUsers(<<Alice1, Alice2>>)[1].avgScore[1]
       = 60 * aggregateUsers(<<Alice1, Alice2>>)[1].avgScore[2]

(***************************************************************************)
(* C21: filterUsers(users, q) returns, in the order of the input, exactly  *)
(* the users whose name or email contains the trimmed query as a           *)
(* substring, letters compared without case; for an empty or               *)
(* whitespace-only query it returns the input, same members, same order.   *)
(* Matching spells the users out by hand for each query of the model.      *)
(***************************************************************************)
Matching ==
  " BOB " :> {UserRow("Bob", "bob@x.com"), UserRow("Bob", "alice@x.com")} @@
  "ali" :> {UserRow("Alice", "alice@x.com"), UserRow("Bob", "alice@x.com"),
            UserRow("Alice", "carol@x.com")} @@
  "zz" :> {} @@
  "" :> UserRows @@
  " " :> UserRows

\* kept is xs without some of its elements, the others in their order
RECURSIVE IsSubsequence(_, _)

IsSubsequence(kept, xs) ==
  IF kept = <<>> THEN TRUE
  ELSE IF xs = <<>> THEN FALSE
  ELSE IF Head(kept) = Head(xs) THEN IsSubsequence(Tail(kept), Tail(xs))
  ELSE IsSubsequence(kept, Tail(xs))

C21_FilterUsersKeepsTheMatching ==
  (call.fn = "filterUsers" /\ ret.done) =>
    LET q == toLowerCase(trim(Chars[call.arg]))
        hit(u) == \/ includes(toLowerCase(Chars[u.name]), q)
                  \/ includes(toLowerCase(Chars[u.email]), q)
    IN /\ IsSubsequence(ret.value, call.users)
       /\ \A i \in 1..Len(call.users) :
            LET u == call.users[i]
                same == {j \in 1..Len(call.users) : call.users[j] = u}
                kept == {j \in 1..Len(ret.value) : ret.value[j] = u}
            IN /\ Cardinality(kept) = IF hit(u) THEN Cardinality(same) ELSE 0
               /\ hit(u) <=> u \in Matching[call.arg]
       /\ (q = <<>>) => ret.value = call.users

C21_Witness ==
  /\ call.fn = "filterUsers"
  /\ ret.done
  /\ call.arg = " BOB "
  /\ call.users = <<UserRow("Alice", "alice@x.com"), UserRow("Bob", "alice@x.com"),
                    UserRow("Bob", "bob@x.com")>>
  /\ ret.value = <<UserRow("Bob", "alice@x.com"), UserRow("Bob", "bob@x.com")>>

(***************************************************************************)
(* C22: timeSeriesAvgScore returns one point per entry and, for entries    *)
(* whose author_date_iso values are valid and pairwise distinct, the x     *)
(* values of the points are non-decreasing.  The sort compares the date    *)
(* strings, x is the parsed time: two valid dates written in different     *)
(* UTC offsets come out with x decreasing.                                 *)
(***************************************************************************)
ValidDistinctDates(entries) ==
  /\ \A i \in 1..Len(entries) : author_date_iso(entries[i]) \in DOMAIN DateParse
  /\ \A i, j \in 1..Len(entries) :
       i # j => author_date_iso(entries[i]) # author_date_iso(entries[j])

C22_TimeSeriesNonDecreasing ==
  (call.fn = "timeSeriesAvgScore" /\ ret.done) =>
    /\ Len(ret.value) = Len(call.entries)
    /\ ValidDistinctDates(call.entries) =>
         \A i \in 1..(Len(ret.value) - 1) : ret.value[i].x <= ret.value[i + 1].x

(***************************************************************************)
(* C23: entriesForUser(entries, email) returns exactly the entries whose   *)
(* author_email equals email, each as often as the input holds it and      *)
(* none added, ordered so that author_date_iso is non-increasing by        *)
(* string comparison, also when several entries share a date.              *)
(***************************************************************************)
Occurrences(xs, x) == Cardinality({i \in 1..Len(xs) : xs[i] = x})

C23_EntriesForUserExactAndNewestFirst ==
  (call.fn = "entriesForUser" /\ ret.done) =>
    /\ \A e \in DatedEntries :
         Occurrences(ret.value, e) =
           IF author_email(e) = call.arg THEN Occurrences(call.entries, e) ELSE 0
    /\ \A i \in 1..(Len(ret.value) - 1) :
         ~StrLt(author_date_iso(ret.value[i]), author_date_iso(ret.value[i + 1]))

C23_Witness ==
  /\ call.fn = "entriesForUser"
  /\ ret.done
  /\ call.arg = "alice@x.com"
  /\ call.entries = <<Alice1, Alice2, Alice1>>
  /\ ret.value = <<Alice2, Alice1, Alice1>>

(***************************************************************************)
(* C26: for every row of aggregateUsers, lastSeenIso is the greatest       *)
(* author_date_iso, by string comparison, among all of that user's         *)
(* entries, whatever the order of the entries in the input.                *)
(***************************************************************************)
C26_LastSeenIsGreatestDate ==
  (call.fn = "aggregateUsers" /\ ret.done) =>
    \A r \in 1..Len(ret.value) :
      LET row == ret.value[r]
          mine == EntriesBy(row.email)
      IN /\ \E i \in mine : author_date_iso(call.entries[i]) = row.lastSeenIso
         /\ \A i \in mine : ~StrLt(row.lastSeenIso, author_date_iso(call.entries[i]))

\* the greatest date is neither the first nor the last of the input
C26_Witness ==
  /\ call.fn = "aggregateUsers"
  /\ ret.done
  /\ call.entries = <<Alice3, Alice2, Alice1>>
  /\ Len(ret.value) = 1
  /\ ret.value[1].lastSeenIso = "2024-02-01"

RECURSIVE SumOf(_, _)

\* the sum of a field over rows
SumOf(rows, field) ==
  IF rows = <<>> THEN 0 ELSE Head(rows)[field] + SumOf(Tail(rows), field)

(***************************************************************************)
(* C27: aggregateUsers counts every entry, the first of each email         *)
(* included: for each row, passes is the number of the user's entries      *)
(* decided exactly "pass", fails the number decided anything else, and     *)
(* passes + fails the number of the user's entries; summed over the rows,  *)
(* passes equals kpis(entries).pass and fails equals kpis(entries).fail.   *)
(***************************************************************************)
C27_RowsCountEveryEntry ==
  (call.fn = "aggregateUsers" /\ ret.done) =>
    /\ \A r \in 1..Len(ret.value) :
         LET row == ret.value[r]
             mine == EntriesBy(row.email)
         IN /\ row.passes = Cardinality(mine \cap Passed)
            /\ row.fails = Cardinality(mine \ Passed)
            /\ row.passes + row.fails = Cardinality(mine)
    /\ SumOf(ret.value, "passes") = kpis(call.entries).pass
    /\ SumOf(ret.value, "fails") = kpis(call.entries).fail

\* Alice passes once and fails once; Carol's only entry, decided "warn",
\* counts as a fail
C27_Witness ==
  /\ call.fn = "aggregateUsers"
  /\ ret.done
  /\ call.entries = <<Alice1, Carol1, Alice2>>
  /\ Len(ret.value) = 2
  /\ ret.value[1].email = "alice@x.com" /\ ret.value[1].passes = 1 /\ ret.value[1].fails = 1
  /\ ret.value[2].email = "carol@x.com" /\ ret.value[2].passes = 0 /\ ret.value[2].fails = 1

(***************************************************************************)
(* C25: with the loaded data fixed, in every state reachable by user-row   *)
(* clicks, transcript-row clicks in the open drawer and close, a non-null  *)
(* selectedCommit implies that selectedEmail is non-null and that          *)
(* selectedCommit is the sha of an entry authored by selectedEmail; and a  *)
(* transcript-row click changes selectedCommit only.                       *)
(***************************************************************************)
C25_CommitBelongsToSelectedUser ==
  /\ state.selectedCommit # JNull =>
       /\ state.selectedEmail # JNull
       /\ \E i \in 1..Len(EntriesOf(state)) :
            /\ commit_sha(EntriesOf(state)[i]) = state.selectedCommit.v
            /\ author_email(EntriesOf(state)[i]) = state.selectedEmail.v
  /\ call.fn = "transcriptClick" =>
       /\ state = [call.before EXCEPT !.selectedCommit = JStr(call.arg)]
       /\ emitted = <<state>>

\* Alice's older commit picked in her drawer
C25_Witness ==
  /\ call.fn = "transcriptClick"
  /\ call.before.selectedEmail = JStr("alice@x.com")
  /\ call.before.selectedCommit = JNull
  /\ state.selectedEmail = JStr("alice@x.com")
  /\ state.selectedCommit = JStr("aaa")
  /\ state.data = BundleA

(***************************************************************************)
(* C24: when a setState call has returned, every mounted component shows   *)
(* the current store state: the user table lists                           *)
(* filterUsers(aggregateUsers(data.entries), userFilter) of the state      *)
(* after the call and marks the selected user, and the drawer is what its  *)
(* render makes of that state, although the table subscribed before the    *)
(* app and rendered first, on the signal, with the users of the state      *)
(* before.                                                                 *)
(***************************************************************************)
C24_ComponentsShowCurrentState ==
  mounted =>
    /\ dom.table.users = filterUsers(aggregateUsers(EntriesOf(state)), state.userFilter)
    /\ dom.table = TableRender(dom.table.users, state)
    /\ dom.drawer = DrawerRender(dom.drawer, state)

\* the filter has just been typed over a loaded bundle: one signal, and the
\* table lists Bob alone
C24_Witness ==
  /\ mounted
  /\ Len(emitted) = 1
  /\ state.data = BundleA
  /\ state.userFilter = " BOB "
  /\ Len(dom.table.rows) = 1
  /\ dom.table.users[1].email = "bob@x.com"
  /\ Len(aggregateUsers(EntriesOf(state))) = 2

(***************************************************************************)
(* C28: a failed load leaves data unchanged: after a failed manual load    *)
(* or a failed bootstrap, data is still the bundle of the most recent      *)
(* successful load (or null if there was none), so a state with status     *)
(* error or idle and non-null data is reachable, and the dashboard keeps   *)
(* showing the earlier snapshot (the same users in the table, the          *)
(* "Generated at" line) beside the error message.  data starts null, is    *)
(* the loaded bundle after a successful load and changes in no other step. *)
(***************************************************************************)
C28_FailedLoadKeepsData ==
  /\ state.data = JNull
  /\ [][/\ (Settled /\ ~lastDone'.result.ok) =>
            (/\ \A k \in 1..Len(emitted') : emitted'[k].data = state.data
             /\ state'.data = state.data
             /\ state'.status \in {"error", "idle"}
             /\ dom'.table.users = dom.table.users
             /\ \A lines \in {StatusLines(state')} :
                  /\ lines[1] = state'.error.v
                  /\ (state.data # JNull) =>
                       (lines = <<state'.error.v,
                                  "Generated at: " \o Get(state.data, "generated_at").v>>))
        /\ (Settled /\ lastDone'.result.ok) => (state'.data = lastDone'.result.value)
        /\ (~Settled) => (state'.data = state.data)]_vars

\* a file that is not JSON, picked while bundle A is shown
C28_Witness ==
  /\ lastDone.kind = "file"
  /\ ~lastDone.result.ok
  /\ state.status = "error"
  /\ state.data = BundleA
  /\ Len(dom.table.rows) = 2
  /\ StatusLines(state) = <<"invalid JSON: Unexpected end of JSON input",
                            "Generated at: 2024-02-01">>

(***************************************************************************)
(* C29: in every reachable state, status = loading implies that at least   *)
(* one load is still in flight, and status = ready implies that data is    *)
(* non-null and error is null; status starts as idle, and it becomes ready *)
(* or error only through the completion of a load.                         *)
(***************************************************************************)
C29_StatusFollowsLoads ==
  /\ state.status = "idle"
  /\ [](/\ state.status = "loading" => loads # {}
        /\ \A s \in {state} \cup Elements(emitted) :
             s.status = "ready" => (s.data # JNull /\ s.error = JNull))
  /\ [][\A k \in 1..Len(emitted') :
          LET prev == IF k = 1 THEN state ELSE emitted'[k - 1]
              next == emitted'[k]
          IN (next.status \in {"ready", "error"} /\ next.status # prev.status) => Settled]_vars

\* one of two loads in flight has succeeded: ready, the other still in flight
C29_Witness ==
  /\ state.status = "ready"
  /\ state.data # JNull
  /\ state.error = JNull
  /\ lastDone.result.ok
  /\ lastDone.kind = "file"
  /\ loads # {}

(***************************************************************************)
(* C30: the selectors never change their input: when aggregateUsers,       *)
(* entriesForUser, kpis, timeSeriesAvgScore or filterUsers has returned,   *)
(* the entry list (or user list) passed in holds the same elements in the  *)
(* same order, so a render does not reorder state.data.entries for the     *)
(* next render.  The array returned is the one the selector is defined to  *)
(* return.                                                                 *)
(***************************************************************************)
C30_SelectorsLeaveInputAlone ==
  ret.done =>
    LET after == ret.value.heap
        result == after[ret.value.ref]
    IN /\ after[1] = call.input
       /\ call.fn = "entriesForUser" => result = entriesForUser(call.input, call.arg)
       /\ call.fn = "timeSeriesAvgScore" => result = timeSeriesAvgScore(call.input)
       /\ call.fn = "aggregateUsers" => result = aggregateUsers(call.input)
       /\ call.fn = "filterUsers" => result = filterUsers(call.input, call.arg)
       /\ call.fn = "render" =>
            /\ result = timeSeriesAvgScore(call.input)
            /\ RunOn("render", after, call.arg).heap[1] = call.input

\* entries given newest first come back as points oldest first, and the
\* entries are still newest first
C30_Witness ==
  /\ call.fn = "timeSeriesAvgScore"
  /\ ret.done
  /\ call.input = <<Alice2, Alice1, Alice3>>
  /\ ret.value.heap[1] = <<Alice2, Alice1, Alice3>>
  /\ ret.value.heap[2] = <<Alice3, Alice1, Alice2>>
  /\ ret.value.ref = 3
====
